---- MODULE Spec2Model ----
(***************************************************************************)
(* shim-release (src/src/main.rs): module fingerprinting, pass 1 of         *)
(* rewrite(), and command-line parsing, parse_args().                      *)
(*                                                                         *)
(* Text is modelled as sequences of bytes (naturals 0..255).  A u32 is     *)
(* modelled as the pair <<high 16 bits, low 16 bits>>.                     *)
(***************************************************************************)
EXTENDS Naturals, Sequences, FiniteSets

(***************************************************************************)
(* Bounds of the model.                                                    *)
(***************************************************************************)
\* files in the syntax forest (paths are 1..MaxFiles, ordered as BTreeMap keys)
MaxFiles == 2
\* top-level descriptions in the whole forest
MaxDescs == 3
\* command-line arguments
MaxArgs == 4
\* command-line arguments of a whole run of main()
MaxMainArgs == 3

(***************************************************************************)
(* CRC-32/CKSUM (crc crate, CRC_32_CKSUM): width 32, poly 0x04C11DB7,      *)
(* init 0, no reflection, xorout 0xFFFFFFFF.                               *)
(***************************************************************************)
RECURSIVE Xor(_, _)
Xor(a, b) ==
  IF a = 0 THEN b
  ELSE IF b = 0 THEN a
  ELSE (((a % 2) + (b % 2)) % 2) + 2 * Xor(a \div 2, b \div 2)

Shl1(r) == <<((r[1] * 2) % 65536) + (r[2] \div 32768), (r[2] * 2) % 65536>>

RECURSIVE CrcBits(_, _)
CrcBits(r, n) ==
  IF n = 0 THEN r
  ELSE CrcBits(IF r[1] >= 32768
               THEN <<Xor(Shl1(r)[1], 1217), Xor(Shl1(r)[2], 7607)>>
               ELSE Shl1(r),
               n - 1)

CrcTable == [i \in 0..255 |-> CrcBits(<<i * 256, 0>>, 8)]

\* CRC32.digest(): a fresh register
CRC32_digest == <<0, 0>>

\* Digest::update(bytes)
RECURSIVE DigestUpdate(_, _)
DigestUpdate(r, bytes) ==
  IF bytes = <<>> THEN r
  ELSE LET t == CrcTable[Xor(r[1] \div 256, Head(bytes))]
       IN  DigestUpdate(<<Xor(((r[1] % 256) * 256) + (r[2] \div 256), t[1]),
                          Xor((r[2] % 256) * 256, t[2])>>,
                        Tail(bytes))

\* Digest::finalize()
DigestFinalize(r) == <<Xor(r[1], 65535), Xor(r[2], 65535)>>

\* the checksum of a whole byte sequence
Crc32(bytes) == DigestFinalize(DigestUpdate(CRC32_digest, bytes))

(***************************************************************************)
(* usize::to_string(): the decimal digits of n, as bytes.                  *)
(***************************************************************************)
RECURSIVE ToString(_)
ToString(n) ==
  IF n < 10 THEN <<48 + n>>
  ELSE ToString(n \div 10) \o <<48 + (n % 10)>>

(***************************************************************************)
(* The syntax forest.  A file is a sequence of top-level descriptions; a   *)
(* description is a module declaration (with a body of tokens, whitespace  *)
(* and instantiations) or some other declaration.  Nodes(file) is the      *)
(* sequence of RefNodes that iterating the file's SyntaxTree yields        *)
(* (pre-order: a node comes before the tokens under it).                   *)
(***************************************************************************)
\* module names "f" and "g"
Names == {<<102>>, <<103>>}

SeqsUpTo(S, n) == UNION {[1..k -> S] : k \in 0..n}

\* the body of a module: a token "x", a whitespace "\n", or an
\* instantiation of module "f"
Bodies ==
  {<<[kind |-> "tok", text |-> <<120>>]>>,
   <<[kind |-> "ws", text |-> <<10>>]>>,
   <<[kind |-> "inst", text |-> <<102>>]>>}

\* ansi: the declaration is of the ANSI or non-ANSI form (main.rs:213);
\* the other forms (extern, wildcard) are declared here without a body
Descs ==
  {[kind |-> "module", ansi |-> TRUE, name |-> <<102>>, body |-> b] :
      b \in {x \in Bodies : x[1].kind # "inst"}}
    \cup {[kind |-> "module", ansi |-> TRUE, name |-> <<103>>, body |-> b] :
            b \in {x \in Bodies : x[1].kind = "inst"}}
    \cup {[kind |-> "module", ansi |-> FALSE, name |-> <<102>>, body |-> <<>>]}
    \cup {[kind |-> "other", ansi |-> FALSE, name |-> <<>>, body |-> <<>>]}

\* the ways to cut a sequence of n descriptions into MaxFiles files: c[p] is
\* the number of descriptions in files 1..p
Cuts(n) ==
  {c \in [1..MaxFiles -> 0..n] :
     /\ c[MaxFiles] = n
     /\ \A p \in 1..(MaxFiles - 1) : c[p] <= c[p + 1]}

CutForest(ds, c) ==
  [p \in 1..MaxFiles |->
     SubSeq(ds, (IF p = 1 THEN 0 ELSE c[p - 1]) + 1, c[p])]

\* the forests of MaxFiles files (some may be empty) holding at most n
\* descriptions in all
ForestsUpTo(n) ==
  UNION {{CutForest(ds, c) : c \in Cuts(Len(ds))} : ds \in SeqsUpTo(Descs, n)}

Forests == ForestsUpTo(MaxDescs)

\* a part of the tree: a token (node = "Locate") or a syntax node whose
\* identifier (or, for WhiteSpace, whose span) is the token `ahead` parts on
Tok(text) == [node |-> "Locate", text |-> text, flag |-> FALSE, ahead |-> 0]
Syn(node, flag, ahead) ==
  [node |-> node, text |-> <<>>, flag |-> flag, ahead |-> ahead]

ItemParts(it) ==
  CASE it.kind = "tok"  -> <<Tok(it.text)>>
    [] it.kind = "ws"   -> <<Syn("WhiteSpace", FALSE, 1), Tok(it.text)>>
    [] it.kind = "inst" ->
         <<Syn("ModuleInstantiation", FALSE, 1), Tok(it.text), Tok(<<117>>)>>

RECURSIVE BodyParts(_)
BodyParts(b) ==
  IF b = <<>> THEN <<>> ELSE ItemParts(Head(b)) \o BodyParts(Tail(b))

DescParts(d) ==
  IF d.kind = "module"
  THEN <<Syn("ModuleDeclaration", d.ansi, 2), Tok(<<109>>), Tok(d.name)>>
         \o BodyParts(d.body)
         \o (IF d.ansi THEN <<Tok(<<101>>)>> ELSE <<>>)
  ELSE <<Syn("Other", FALSE, 0), Tok(<<112>>)>>

RECURSIVE FileParts(_)
FileParts(f) ==
  IF f = <<>> THEN <<>> ELSE DescParts(Head(f)) \o FileParts(Tail(f))

\* byte offset and line number of part i
RECURSIVE Offset(_, _)
Offset(parts, i) ==
  IF i = 1 THEN 0 ELSE Offset(parts, i - 1) + Len(parts[i - 1].text)

RECURSIVE LineOf(_, _)
LineOf(parts, i) ==
  IF i = 1 THEN 1
  ELSE LineOf(parts, i - 1)
         + Cardinality({k \in 1..Len(parts[i - 1].text) :
                          parts[i - 1].text[k] = 10})

\* Locate of the token at part j
Locate(parts, j) ==
  [offset |-> Offset(parts, j), len |-> Len(parts[j].text),
   line |-> LineOf(parts, j)]

\* the RefNodes of a file, in iteration order; for a syntax node, loc and
\* str are those of the Locate that unwrap_node!/get_identifier find in it
Nodes(f) ==
  LET parts == FileParts(f)
  IN  [i \in 1..Len(parts) |->
         [kind |-> parts[i].node,
          flag |-> parts[i].flag,
          loc  |-> Locate(parts, i + parts[i].ahead),
          str  |-> parts[i + parts[i].ahead].text]]

(***************************************************************************)
(* Inputs of rewrite(): the Parameter fields it reads and the forest.      *)
(* Two runs of the program are made one after the other, the second on a   *)
(* variant of the first run's input, so that runs can be compared.         *)
(***************************************************************************)
\* PKG_DEFAULT = "default", REV_DEFAULT = 0
PKG_DEFAULT == <<100, 101, 102, 97, 117, 108, 116>>
REV_DEFAULT == 0

\* (package, revision) pairs: ("a", 12), ("a1", 2), ("a", 2)
Salts == <<<<<<97>>, 12>>, <<<<97, 49>>, 2>>, <<<<97>>, 2>>>>

\* the file with its whitespace and comments removed
StripBody(b) == SelectSeq(b, LAMBDA it : it.kind # "ws")
StripFile(f) == [i \in 1..Len(f) |-> [f[i] EXCEPT !.body = StripBody(@)]]
StripForest(fo) == [p \in DOMAIN fo |-> StripFile(fo[p])]

OtherDesc == [kind |-> "other", ansi |-> FALSE, name |-> <<>>, body |-> <<>>]

\* the inputs of a single run: every forest, under package "a", revision 12
Inputs ==
  {[forest |-> fo, pkg |-> Salts[1][1], rev |-> Salts[1][2]] : fo \in Forests}

\* the same files under paths that sort the other way
ReverseForest(fo) == [p \in 1..MaxFiles |-> fo[MaxFiles + 1 - p]]

\* the inputs of two runs to compare: the smaller forests, the second run's
\* input being the first's without its whitespace ("ws"), under another
\* (package, revision) ("salt"), with one more non-module declaration
\* at the end of a file ("outside"), or with its files walked in the
\* opposite order ("order")
PairForests == ForestsUpTo(MaxDescs - 1)

InputPairs ==
  {[variant |-> "ws",
    in |-> <<[forest |-> fo, pkg |-> PKG_DEFAULT, rev |-> REV_DEFAULT],
             [forest |-> StripForest(fo), pkg |-> PKG_DEFAULT,
              rev |-> REV_DEFAULT]>>] :
      fo \in {f \in PairForests : StripForest(f) # f}}
    \cup {[variant |-> "salt",
           in |-> <<[forest |-> fo, pkg |-> Salts[ab[1]][1],
                     rev |-> Salts[ab[1]][2]],
                    [forest |-> fo, pkg |-> Salts[ab[2]][1],
                     rev |-> Salts[ab[2]][2]]>>] :
            fo \in PairForests,
            ab \in {x \in (1..Len(Salts)) \X (1..Len(Salts)) : x[1] < x[2]}}
    \cup {[variant |-> "outside",
           in |-> <<[forest |-> fo, pkg |-> PKG_DEFAULT, rev |-> REV_DEFAULT],
                    [forest |-> [fo EXCEPT ![p] = Append(@, OtherDesc)],
                     pkg |-> PKG_DEFAULT, rev |-> REV_DEFAULT]>>] :
            fo \in PairForests, p \in 1..MaxFiles}
    \cup {[variant |-> "order",
           in |-> <<[forest |-> fo, pkg |-> PKG_DEFAULT, rev |-> REV_DEFAULT],
                    [forest |-> ReverseForest(fo), pkg |-> PKG_DEFAULT,
                     rev |-> REV_DEFAULT]>>] :
            fo \in {f \in PairForests : ReverseForest(f) # f}}

(***************************************************************************)
(* State.                                                                  *)
(***************************************************************************)
VARIABLES
  args,          \* the command-line arguments (after the program name)
  ai,            \* the next argument of the loop of parse_args
  pnext,         \* PNext
  file_list, defines, inc_list, top_set,   \* Parameter fields
  consumed,      \* history: the <<flag, value>> pairs taken by -t, -r, -p
  fi,            \* the next file of the loop of parse_files
  pairing,       \* the two inputs and how the second varies the first
  run,           \* which run is under way (1 or 2)
  first,         \* what run 1 produced
  pc,            \* position in main()/rewrite()
  pkg, rev,      \* Parameter.pkg, Parameter.rev
  st_map,        \* path -> RefNodes of its SyntaxTree
  module_map,    \* module name -> u32
  rename_map,    \* <<path, offset, len, line>> -> <<name, is declaration>>
  path,          \* the file being walked (0 before the first)
  idx,           \* the next node of the file
  whitespace_or_comment,
  curr_module,   \* <<>> is None, <<name>> is Some(name)
  curr_digest,
  warnings,      \* the warn! messages logged so far
  fed,           \* history: the bytes fed to curr_digest since it was made
  open_at,       \* history: the node index at which curr_module was opened
  seals,         \* history: the scopes sealed into module_map
  walked,        \* history: the paths whose walk has begun, in order
  fed_at         \* history: the places of the tokens fed to curr_digest

rewrite_vars ==
  <<pkg, rev, st_map, module_map, rename_map, path, idx,
    whitespace_or_comment, curr_module, curr_digest, warnings,
    fed, open_at, seals, walked, fed_at>>

args_vars ==
  <<args, ai, pnext, file_list, defines, inc_list, top_set, consumed, fi>>

vars == <<args_vars, pairing, run, first, pc, rewrite_vars>>

\* MapInsert, were an entry already present kept
MapInsert_KeepFirst(m, k, v) ==
  [x \in (DOMAIN m) \cup {k} |-> IF x \in DOMAIN m THEN m[x] ELSE v]

\* BTreeMap::insert
MapInsert(m, k, v) ==
  [x \in (DOMAIN m) \cup {k} |-> IF x = k THEN v ELSE m[x]]

EmptyMap == [x \in {} |-> 0]

StMap(forest) == [p \in 1..MaxFiles |-> Nodes(forest[p])]

NoFirst ==
  [module_map |-> EmptyMap, rename_map |-> EmptyMap,
   warnings |-> <<>>, seals |-> <<>>]

\* rewrite(p, st_map) is entered with input in
Entry(in) ==
  /\ args = <<>>
  /\ ai = 1
  /\ pnext = "P_NONE"
  /\ file_list = <<>>
  /\ defines = EmptyMap
  /\ inc_list = <<>>
  /\ top_set = {}
  /\ consumed = <<>>
  /\ fi = 1
  /\ run = 1
  /\ first = NoFirst
  /\ pc = "file"
  /\ pkg = in.pkg
  /\ rev = in.rev
  /\ st_map = StMap(in.forest)
  /\ module_map = EmptyMap
  /\ rename_map = EmptyMap
  /\ path = 0
  /\ idx = 1
  /\ whitespace_or_comment = {}
  /\ curr_module = <<>>
  /\ curr_digest = CRC32_digest
  /\ warnings = <<>>
  /\ fed = <<>>
  /\ open_at = 0
  /\ seals = <<>>
  /\ walked = <<>>
  /\ fed_at = {}

\* one run
Init ==
  /\ pairing \in {[variant |-> "none", in |-> <<i>>] : i \in Inputs}
  /\ Entry(pairing.in[1])

\* two runs
InitPair ==
  /\ pairing \in InputPairs
  /\ Entry(pairing.in[1])

(***************************************************************************)
(* rewrite(), first pass: one action per step of the two loops.            *)
(***************************************************************************)
node == st_map[path][idx]

Key(loc) == <<loc.offset, loc.len, loc.line>>

FileLoc(loc) == <<path, loc.offset, loc.len, loc.line>>

\* module_map.insert(m, curr_digest.finalize()), with the history of it
Seal(mm) ==
  /\ module_map' = MapInsert(mm, curr_module[1], DigestFinalize(curr_digest))
  /\ seals' = Append(seals, [path |-> path, name |-> curr_module[1],
                             from |-> open_at, to |-> idx, bytes |-> fed,
                             places |-> fed_at,
                             fp |-> DigestFinalize(curr_digest)])

\* BTreeMap iteration: the keys of m after key k (0 before the first), and
\* the one the iterator yields next
KeysAfter(m, k) == {x \in DOMAIN m : x > k}

\* NextKey, were the map iterated from its greatest key
NextKey_Greatest(m, k) ==
  CHOOSE x \in KeysAfter(m, k) : \A y \in KeysAfter(m, k) : y <= x

NextKey(m, k) ==
  CHOOSE x \in KeysAfter(m, k) : \A y \in KeysAfter(m, k) : x <= y

\* BeginFile, were the state of the file before kept
BeginFile_NoReset ==
  /\ pc = "file"
  /\ KeysAfter(st_map, path) # {}
  /\ path' = NextKey(st_map, path)
  /\ idx' = 1
  /\ walked' = Append(walked, NextKey(st_map, path))
  /\ pc' = "node"
  /\ UNCHANGED <<args_vars, pairing, run, first, pkg, rev, st_map, module_map,
                 rename_map, warnings, seals, whitespace_or_comment,
                 curr_module, curr_digest, fed, open_at, fed_at>>

\* for (path, syntax_tree) in st_map.iter(): the next file, in key order
BeginFile ==
  /\ pc = "file"
  /\ KeysAfter(st_map, path) # {}
  /\ path' = NextKey(st_map, path)
  /\ idx' = 1
  /\ whitespace_or_comment' = {}
  /\ curr_module' = <<>>
  /\ curr_digest' = CRC32_digest
  /\ fed' = <<>>
  /\ open_at' = 0
  /\ walked' = Append(walked, NextKey(st_map, path))
  /\ fed_at' = {}
  /\ pc' = "node"
  /\ UNCHANGED <<args_vars, pairing, run, first, pkg, rev, st_map, module_map,
                 rename_map, warnings, seals>>

AtNode(kind) ==
  /\ pc = "node"
  /\ idx <= Len(st_map[path])
  /\ node.kind = kind
  /\ idx' = idx + 1

\* VisitLocate, were the whitespace set not consulted
VisitLocate_FeedAll ==
  /\ AtNode("Locate")
  /\ curr_digest' = DigestUpdate(curr_digest, node.str)
  /\ fed' = fed \o node.str
  /\ fed_at' = fed_at \cup {<<path, idx>>}
  /\ UNCHANGED <<args_vars, pairing, run, first, pc, pkg, rev, st_map,
                 module_map, rename_map, path, whitespace_or_comment,
                 curr_module, warnings, open_at, seals, walked>>

\* RefNode::Locate(x)
VisitLocate ==
  /\ AtNode("Locate")
  /\ IF Key(node.loc) \in whitespace_or_comment
     THEN UNCHANGED <<curr_digest, fed, fed_at>>
     ELSE /\ curr_digest' = DigestUpdate(curr_digest, node.str)
          /\ fed' = fed \o node.str
          /\ fed_at' = fed_at \cup {<<path, idx>>}
  /\ UNCHANGED <<args_vars, pairing, run, first, pc, pkg, rev, st_map, module_map,
                 rename_map, path, whitespace_or_comment, curr_module,
                 warnings, open_at, seals, walked>>

\* VisitWhiteSpace, were the span not remembered
VisitWhiteSpace_Forget ==
  /\ AtNode("WhiteSpace")
  /\ UNCHANGED <<args_vars, pairing, run, first, pc, pkg, rev, st_map,
                 module_map, rename_map, path, whitespace_or_comment,
                 curr_module, curr_digest, warnings, fed, open_at, seals, walked, fed_at>>

\* RefNode::WhiteSpace(x)
VisitWhiteSpace ==
  /\ AtNode("WhiteSpace")
  /\ whitespace_or_comment' = whitespace_or_comment \cup {Key(node.loc)}
  /\ UNCHANGED <<args_vars, pairing, run, first, pc, pkg, rev, st_map, module_map,
                 rename_map, path, curr_module, curr_digest, warnings,
                 fed, open_at, seals, walked, fed_at>>

\* VisitModuleInstantiation, were the entry flagged as a declaration
VisitModuleInstantiation_AsDeclaration ==
  /\ AtNode("ModuleInstantiation")
  /\ rename_map' = MapInsert(rename_map, FileLoc(node.loc), <<node.str, TRUE>>)
  /\ UNCHANGED <<args_vars, pairing, run, first, pc, pkg, rev, st_map,
                 module_map, path, whitespace_or_comment, curr_module,
                 curr_digest, warnings, fed, open_at, seals, walked, fed_at>>

\* RefNode::ModuleInstantiation(x)
VisitModuleInstantiation ==
  /\ AtNode("ModuleInstantiation")
  /\ rename_map' = MapInsert(rename_map, FileLoc(node.loc), <<node.str, FALSE>>)
  /\ UNCHANGED <<args_vars, pairing, run, first, pc, pkg, rev, st_map, module_map,
                 path, whitespace_or_comment, curr_module, curr_digest,
                 warnings, fed, open_at, seals, walked, fed_at>>

\* VisitModuleDeclaration, were the scope open before not sealed
VisitModuleDeclaration_NoSeal ==
  /\ AtNode("ModuleDeclaration")
  /\ IF node.flag
     THEN /\ rename_map' =
               MapInsert(rename_map, FileLoc(node.loc), <<node.str, TRUE>>)
          /\ curr_module' = <<node.str>>
          /\ curr_digest' =
               DigestUpdate(DigestUpdate(CRC32_digest, pkg), ToString(rev))
          /\ fed' = pkg \o ToString(rev)
          /\ fed_at' = {}
          /\ open_at' = idx
     ELSE UNCHANGED <<rename_map, curr_module, curr_digest, fed, fed_at,
                      open_at>>
  /\ UNCHANGED <<args_vars, pairing, run, first, pc, pkg, rev, st_map, path,
                 walked, whitespace_or_comment, warnings, module_map, seals>>

\* RefNode::ModuleDeclaration(x)
VisitModuleDeclaration ==
  /\ AtNode("ModuleDeclaration")
  /\ IF node.flag
     THEN /\ rename_map' =
               MapInsert(rename_map, FileLoc(node.loc), <<node.str, TRUE>>)
          /\ IF curr_module # <<>>
             THEN /\ warnings' =
                       IF curr_module[1] \in DOMAIN module_map
                       THEN Append(warnings, <<"redefined", curr_module[1]>>)
                       ELSE warnings
                  /\ Seal(module_map)
             ELSE UNCHANGED <<warnings, module_map, seals>>
          /\ curr_module' = <<node.str>>
          /\ curr_digest' =
               DigestUpdate(DigestUpdate(CRC32_digest, pkg), ToString(rev))
          /\ fed' = pkg \o ToString(rev)
          /\ fed_at' = {}
          /\ open_at' = idx
     ELSE UNCHANGED <<rename_map, warnings, module_map, seals, curr_module,
                      curr_digest, fed, fed_at, open_at>>
  /\ UNCHANGED <<args_vars, pairing, run, first, pc, pkg, rev, st_map, path, walked,
                 whitespace_or_comment>>

\* _ => ()
VisitOther ==
  /\ AtNode("Other")
  /\ UNCHANGED <<args_vars, pairing, run, first, pc, pkg, rev, st_map, module_map,
                 rename_map, path, whitespace_or_comment, curr_module,
                 curr_digest, warnings, fed, open_at, seals, walked, fed_at>>

\* EndFile, were the scope still open at the end of the file not sealed
EndFile_NoSeal ==
  /\ pc = "node"
  /\ idx > Len(st_map[path])
  /\ pc' = "file"
  /\ UNCHANGED <<args_vars, pairing, run, first, pkg, rev, st_map,
                 module_map, rename_map, path, idx, whitespace_or_comment,
                 curr_module, curr_digest, warnings, fed, open_at, seals, walked, fed_at>>

\* after the last node of the file
EndFile ==
  /\ pc = "node"
  /\ idx > Len(st_map[path])
  /\ IF curr_module # <<>>
     THEN Seal(module_map)
     ELSE UNCHANGED <<module_map, seals>>
  /\ pc' = "file"
  /\ UNCHANGED <<args_vars, pairing, run, first, pkg, rev, st_map, rename_map, path,
                 idx, whitespace_or_comment, curr_module, curr_digest,
                 warnings, fed, open_at, walked, fed_at>>

\* the first pass is over: info!("rewreite, 2nd pass...")
BeginPass2 ==
  /\ pc = "file"
  /\ KeysAfter(st_map, path) = {}
  /\ pc' = "pass2"
  /\ UNCHANGED <<args_vars, pairing, run, first, rewrite_vars>>

\* the second pass has no statement: rewrite() returns
Pass2 ==
  /\ pc = "pass2"
  /\ pc' = "done"
  /\ UNCHANGED <<args_vars, pairing, run, first, rewrite_vars>>

\* the program is run again, on the second input
NextRun ==
  /\ pc = "done"
  /\ run = 1
  /\ run' = 2
  /\ first' = [module_map |-> module_map, rename_map |-> rename_map,
               warnings |-> warnings, seals |-> seals]
  /\ pc' = "file"
  /\ UNCHANGED <<args_vars, pairing>>
  /\ pkg' = pairing.in[2].pkg
  /\ rev' = pairing.in[2].rev
  /\ st_map' = StMap(pairing.in[2].forest)
  /\ module_map' = EmptyMap
  /\ rename_map' = EmptyMap
  /\ path' = 0
  /\ idx' = 1
  /\ whitespace_or_comment' = {}
  /\ curr_module' = <<>>
  /\ curr_digest' = CRC32_digest
  /\ warnings' = <<>>
  /\ fed' = <<>>
  /\ open_at' = 0
  /\ seals' = <<>>
  /\ walked' = <<>>
  /\ fed_at' = {}

Next ==
  \/ BeginFile
  \/ VisitLocate
  \/ VisitWhiteSpace
  \/ VisitModuleInstantiation
  \/ VisitModuleDeclaration
  \/ VisitOther
  \/ EndFile
  \/ BeginPass2
  \/ Pass2

Spec == Init /\ [][Next]_vars

NextPair ==
  \/ Next
  \/ NextRun

SpecPair == InitPair /\ [][NextPair]_vars

TypeOK ==
  /\ run \in {1, 2}
  /\ pc \in {"args", "panic", "parsed", "parse_files", "file", "node",
            "pass2", "done"}
  /\ DOMAIN module_map \subseteq Names

(***************************************************************************)
(* parse_args(): one action per iteration of its loop.                     *)
(***************************************************************************)
\* the literals "+define+", "+incdir+", "-t", "-r", "-p"
STR_DEFINE == <<43, 100, 101, 102, 105, 110, 101, 43>>
STR_INCDIR == <<43, 105, 110, 99, 100, 105, 114, 43>>
STR_T == <<45, 116>>
STR_R == <<45, 114>>
STR_P == <<45, 112>>

\* the arguments tried: the three flags, "0", "7", "x", "default",
\* "+incdir+", "+incdir+d", "+define+", "+define+A=1", and "aaaaaaa" followed
\* by a two-byte UTF-8 character
ArgAlphabet ==
  {STR_T, STR_R, STR_P, <<48>>, <<55>>, <<120>>, PKG_DEFAULT,
   STR_INCDIR, STR_INCDIR \o <<100>>,
   STR_DEFINE, STR_DEFINE \o <<65, 61, 49>>,
   <<97, 97, 97, 97, 97, 97, 97, 195, 169>>}

\* str::is_char_boundary(i) for 0 < i <= len: byte i (counted from 0) is not
\* a UTF-8 continuation byte
IsCharBoundary(str, i) ==
  \/ i = Len(str)
  \/ str[i + 1] < 128
  \/ str[i + 1] >= 192

\* str::find(ch) from position i: the 1-based index of the first ch, 0 for None
RECURSIVE Find(_, _, _)
Find(str, ch, i) ==
  IF i > Len(str) THEN 0
  ELSE IF str[i] = ch THEN i
  ELSE Find(str, ch, i + 1)

\* str::parse::<usize>(): <<TRUE, value>> or <<FALSE, 0>>; one leading '+'
\* is accepted before the digits
IsDigits(str) == \A i \in 1..Len(str) : str[i] >= 48 /\ str[i] <= 57

RECURSIVE DigitsValue(_)
DigitsValue(str) ==
  IF str = <<>> THEN 0
  ELSE 10 * DigitsValue(SubSeq(str, 1, Len(str) - 1)) + (str[Len(str)] - 48)

ParseUsize(str) ==
  LET digits == IF Len(str) > 1 /\ str[1] = 43 THEN Tail(str) ELSE str
  IN  IF digits # <<>> /\ IsDigits(digits)
      THEN <<TRUE, DigitsValue(digits)>>
      ELSE <<FALSE, 0>>

\* the branch of the P_NONE arm that the argument takes; slicing arg[0..8]
\* panics when byte 8 is inside a character
Classify(arg) ==
  IF Len(arg) >= 8 /\ ~IsCharBoundary(arg, 8) THEN "panic"
  ELSE IF Len(arg) >= 8 /\ SubSeq(arg, 1, 8) = STR_DEFINE THEN "define"
  ELSE IF Len(arg) > 8 /\ SubSeq(arg, 1, 8) = STR_INCDIR THEN "incdir"
  ELSE IF arg = STR_T THEN "P_TOP"
  ELSE IF arg = STR_R THEN "P_REV"
  ELSE IF arg = STR_P THEN "P_PKG"
  ELSE "file"

\* (k, v) of "+define+k=v" or "+define+k"; None is <<>>, Some(v) is <<v>>
DefineKey(arg) ==
  LET kv == SubSeq(arg, 9, Len(arg))
      at == Find(kv, 61, 1)
  IN  IF at = 0 THEN kv ELSE SubSeq(kv, 1, at - 1)

DefineValue(arg) ==
  LET kv == SubSeq(arg, 9, Len(arg))
      at == Find(kv, 61, 1)
  IN  IF at = 0 THEN <<>> ELSE <<SubSeq(kv, at + 1, Len(kv))>>

AtArg(pn) ==
  /\ pc = "args"
  /\ ai <= Len(args)
  /\ pnext = pn
  /\ ai' = ai + 1

\* P_NONE => { ... }
ArgNone ==
  /\ AtArg("P_NONE")
  /\ LET arg == args[ai]
         c == Classify(arg)
     IN  /\ pc' = IF c = "panic" THEN "panic" ELSE pc
         /\ defines' = IF c = "define"
                       THEN MapInsert(defines, DefineKey(arg), DefineValue(arg))
                       ELSE defines
         /\ inc_list' = IF c = "incdir"
                        THEN Append(inc_list, SubSeq(arg, 9, Len(arg)))
                        ELSE inc_list
         /\ pnext' = IF c \in {"P_TOP", "P_REV", "P_PKG"} THEN c ELSE pnext
         /\ file_list' = IF c = "file" THEN Append(file_list, arg)
                         ELSE file_list
  /\ UNCHANGED <<args, fi, top_set, consumed, pairing, run, first, rewrite_vars>>

\* ArgTop, were a value that is itself a flag read as that flag
ArgTop_FlagNotValue ==
  /\ AtArg("P_TOP")
  /\ top_set' = IF args[ai] \in {STR_T, STR_R, STR_P} THEN top_set
                ELSE top_set \cup {args[ai]}
  /\ pnext' = CASE args[ai] = STR_T -> "P_TOP"
                 [] args[ai] = STR_R -> "P_REV"
                 [] args[ai] = STR_P -> "P_PKG"
                 [] OTHER -> "P_NONE"
  /\ consumed' = IF args[ai] \in {STR_T, STR_R, STR_P} THEN consumed
                 ELSE Append(consumed, <<"P_TOP", args[ai]>>)
  /\ UNCHANGED <<args, fi, file_list, defines, inc_list, pairing, run, first,
                 pc, rewrite_vars>>

\* P_TOP => { ... }
ArgTop ==
  /\ AtArg("P_TOP")
  /\ top_set' = top_set \cup {args[ai]}
  /\ pnext' = "P_NONE"
  /\ consumed' = Append(consumed, <<"P_TOP", args[ai]>>)
  /\ UNCHANGED <<args, fi, file_list, defines, inc_list, pairing, run, first,
                 pc, rewrite_vars>>

\* ArgRev, were a value that does not parse passed over
ArgRev_IgnoreMalformed ==
  /\ AtArg("P_REV")
  /\ warnings' = IF rev # REV_DEFAULT
                 THEN Append(warnings, <<"old revision overrided", rev>>)
                 ELSE warnings
  /\ consumed' = Append(consumed, <<"P_REV", args[ai]>>)
  /\ rev' = IF ParseUsize(args[ai])[1] THEN ParseUsize(args[ai])[2] ELSE rev
  /\ pnext' = "P_NONE"
  /\ UNCHANGED <<args, fi, file_list, defines, inc_list, top_set, pairing, run,
                 first, pc, pkg, st_map, module_map, rename_map, path, idx,
                 whitespace_or_comment, curr_module, curr_digest, fed,
                 open_at, seals, walked, fed_at>>

\* P_REV => { ... }: the warning is logged before the value is parsed
ArgRev ==
  /\ AtArg("P_REV")
  /\ warnings' = IF rev # REV_DEFAULT
                 THEN Append(warnings, <<"old revision overrided", rev>>)
                 ELSE warnings
  /\ consumed' = Append(consumed, <<"P_REV", args[ai]>>)
  /\ IF ParseUsize(args[ai])[1]
     THEN /\ rev' = ParseUsize(args[ai])[2]
          /\ pnext' = "P_NONE"
          /\ pc' = pc
     ELSE /\ pc' = "panic"
          /\ UNCHANGED <<rev, pnext>>
  /\ UNCHANGED <<args, fi, file_list, defines, inc_list, top_set, pairing, run,
                 first, pkg, st_map, module_map, rename_map, path, idx,
                 whitespace_or_comment, curr_module, curr_digest, fed,
                 open_at, seals, walked, fed_at>>

\* ArgPkg, were a package already set kept
ArgPkg_KeepFirst ==
  /\ AtArg("P_PKG")
  /\ warnings' = IF pkg # PKG_DEFAULT
                 THEN Append(warnings, <<"old package overrided", pkg>>)
                 ELSE warnings
  /\ consumed' = Append(consumed, <<"P_PKG", args[ai]>>)
  /\ pkg' = IF pkg # PKG_DEFAULT THEN pkg ELSE args[ai]
  /\ pnext' = "P_NONE"
  /\ UNCHANGED <<args, fi, file_list, defines, inc_list, top_set, pairing, run,
                 first, pc, rev, st_map, module_map, rename_map, path, idx,
                 whitespace_or_comment, curr_module, curr_digest, fed,
                 open_at, seals, walked, fed_at>>

\* P_PKG => { ... }
ArgPkg ==
  /\ AtArg("P_PKG")
  /\ warnings' = IF pkg # PKG_DEFAULT
                 THEN Append(warnings, <<"old package overrided", pkg>>)
                 ELSE warnings
  /\ consumed' = Append(consumed, <<"P_PKG", args[ai]>>)
  /\ pkg' = args[ai]
  /\ pnext' = "P_NONE"
  /\ UNCHANGED <<args, fi, file_list, defines, inc_list, top_set, pairing, run,
                 first, pc, rev, st_map, module_map, rename_map, path, idx,
                 whitespace_or_comment, curr_module, curr_digest, fed,
                 open_at, seals, walked, fed_at>>

\* Parameter { file_list, defines, inc_list, top_set, rev, pkg }
ArgsReturn ==
  /\ pc = "args"
  /\ ai > Len(args)
  /\ pc' = "parsed"
  /\ UNCHANGED <<args_vars, pairing, run, first, rewrite_vars>>

\* main() is entered
ArgsEntry ==
  /\ ai = 1
  /\ pnext = "P_NONE"
  /\ file_list = <<>>
  /\ defines = EmptyMap
  /\ inc_list = <<>>
  /\ top_set = {}
  /\ consumed = <<>>
  /\ fi = 1
  /\ rev = REV_DEFAULT
  /\ pkg = PKG_DEFAULT
  /\ warnings = <<>>
  /\ pc = "args"
  /\ pairing = [variant |-> "none", in |-> <<>>]
  /\ run = 1
  /\ first = NoFirst
  /\ st_map = <<>>
  /\ module_map = EmptyMap
  /\ rename_map = EmptyMap
  /\ path = 0
  /\ idx = 1
  /\ whitespace_or_comment = {}
  /\ curr_module = <<>>
  /\ curr_digest = CRC32_digest
  /\ fed = <<>>
  /\ open_at = 0
  /\ seals = <<>>
  /\ walked = <<>>
  /\ fed_at = {}

InitArgs ==
  /\ args \in SeqsUpTo(ArgAlphabet, MaxArgs)
  /\ ArgsEntry

NextArgs ==
  \/ ArgNone
  \/ ArgTop
  \/ ArgRev
  \/ ArgPkg
  \/ ArgsReturn

SpecArgs == InitArgs /\ [][NextArgs]_vars

(***************************************************************************)
(* main(): parse_args, show_info, parse_files, rewrite.                    *)
(***************************************************************************)
\* the arguments tried: the three flags, "7", "x", and the paths "a", "b"
MainAlphabet == {STR_T, STR_R, STR_P, <<55>>, <<120>>, <<97>>, <<98>>}

\* the files there are: "a" holds module g (which instantiates f) and
\* another declaration, "b" holds another declaration and two declarations
\* of module f; parse_sv fails on every other path
FileA ==
  <<[kind |-> "module", ansi |-> TRUE, name |-> <<103>>,
     body |-> <<[kind |-> "inst", text |-> <<102>>]>>],
    OtherDesc>>

FileB ==
  <<OtherDesc,
    [kind |-> "module", ansi |-> TRUE, name |-> <<102>>,
     body |-> <<[kind |-> "ws", text |-> <<10>>]>>],
    [kind |-> "module", ansi |-> TRUE, name |-> <<102>>,
     body |-> <<[kind |-> "tok", text |-> <<120>>]>>]>>

\* parse_sv(&file, ...): <<TRUE, the tree>> is Ok, <<FALSE, <<>>>> is Err
ParseSv(file) ==
  CASE file = <<97>> -> <<TRUE, Nodes(FileA)>>
    [] file = <<98>> -> <<TRUE, Nodes(FileB)>>
    [] OTHER -> <<FALSE, <<>>>>

\* the order of String: byte by byte, a proper prefix first
RECURSIVE StrLess(_, _)
StrLess(a, b) ==
  IF b = <<>> THEN FALSE
  ELSE IF a = <<>> THEN TRUE
  ELSE IF Head(a) # Head(b) THEN Head(a) < Head(b)
  ELSE StrLess(Tail(a), Tail(b))

\* a path is a key of st_map by its rank in the order of String
PathRank(file) == 1 + Cardinality({t \in MainAlphabet : StrLess(t, file)})

\* show_info(&p): its warn! lines
ShowInfo ==
  /\ pc = "parsed"
  /\ pc' = "parse_files"
  /\ warnings' =
       warnings
         \o (IF pkg = PKG_DEFAULT THEN <<<<"package not set", pkg>>>> ELSE <<>>)
         \o (IF rev = REV_DEFAULT THEN <<<<"revision not set", rev>>>> ELSE <<>>)
         \o (IF top_set = {} THEN <<<<"top set is empty", 0>>>> ELSE <<>>)
  /\ UNCHANGED <<args_vars, pairing, run, first, pkg, rev, st_map, module_map,
                 rename_map, path, idx, whitespace_or_comment, curr_module,
                 curr_digest, fed, open_at, seals, walked, fed_at>>

\* for file in p.file_list.iter() { ... }: parse_sv(...).unwrap() panics
\* on Err
ParseFile ==
  /\ pc = "parse_files"
  /\ fi <= Len(file_list)
  /\ fi' = fi + 1
  /\ IF ParseSv(file_list[fi])[1]
     THEN /\ st_map' = MapInsert(st_map, PathRank(file_list[fi]),
                                 ParseSv(file_list[fi])[2])
          /\ pc' = pc
     ELSE /\ pc' = "panic"
          /\ UNCHANGED st_map
  /\ UNCHANGED <<args, ai, pnext, file_list, defines, inc_list, top_set,
                 consumed, pairing, run, first, pkg, rev, module_map,
                 rename_map, path, idx, whitespace_or_comment, curr_module,
                 curr_digest, warnings, fed, open_at, seals, walked, fed_at>>

\* parse_files returns res and rewrite(&p, syntax_tree_map) is entered
ParseFilesReturn ==
  /\ pc = "parse_files"
  /\ fi > Len(file_list)
  /\ pc' = "file"
  /\ UNCHANGED <<args_vars, pairing, run, first, rewrite_vars>>

InitMain ==
  /\ args \in SeqsUpTo(MainAlphabet, MaxMainArgs)
  /\ ArgsEntry

NextMain ==
  \/ NextArgs
  \/ ShowInfo
  \/ ParseFile
  \/ ParseFilesReturn
  \/ Next

SpecMain == InitMain /\ [][NextMain]_vars

(***************************************************************************)
(* Vocabulary of the properties.                                           *)
(***************************************************************************)
\* a Whitespace/Comment token is the Locate under a WhiteSpace node
IsWhitespace(nodes, i) ==
  /\ nodes[i].kind = "Locate"
  /\ i > 1
  /\ nodes[i - 1].kind = "WhiteSpace"

IsSignificant(nodes, i) ==
  /\ nodes[i].kind = "Locate"
  /\ ~IsWhitespace(nodes, i)

\* the bytes of the Significant tokens among nodes i .. j-1, in order
RECURSIVE SigBytes(_, _, _)
SigBytes(nodes, i, j) ==
  IF i >= j THEN <<>>
  ELSE (IF IsSignificant(nodes, i) THEN nodes[i].str ELSE <<>>)
         \o SigBytes(nodes, i + 1, j)

SaltBytes == pkg \o ToString(rev)

\* a module declaration the first pass records (ANSI or non-ANSI form)
IsDecl(nodes, i) == nodes[i].kind = "ModuleDeclaration" /\ nodes[i].flag

IsInst(nodes, i) == nodes[i].kind = "ModuleInstantiation"

\* the places <<path, index>> of the nodes of a forest that satisfy P
Places(sm, P(_, _)) ==
  UNION {{<<p, i>> : i \in {k \in 1..Len(sm[p]) : P(sm[p], k)}} :
           p \in DOMAIN sm}

DeclPlaces(sm, n) ==
  {pl \in Places(sm, IsDecl) : sm[pl[1]][pl[2]].str = n}

InstPlaces(sm, n) ==
  {pl \in Places(sm, IsInst) : sm[pl[1]][pl[2]].str = n}

NodeFileLoc(sm, pl) ==
  LET loc == sm[pl[1]][pl[2]].loc
  IN  <<pl[1], loc.offset, loc.len, loc.line>>

SecondRunOver(variant) ==
  /\ pc = "done"
  /\ run = 2
  /\ pairing.variant = variant

(***************************************************************************)
(* C4.  While a module scope is open, and when it is sealed, the bytes     *)
(* fed to the checksum since the scope opened are exactly the package      *)
(* name, then the decimal digits of the revision, then the bytes of every  *)
(* Significant token met since the declaration node, in document order     *)
(* and with nothing between them; Whitespace/Comment tokens add nothing.   *)
(* The register is the checksum of those bytes.                            *)
(***************************************************************************)
C4_FedIsSaltsThenTokens ==
  /\ (pc = "node" /\ curr_module # <<>>) =>
       /\ IsDecl(st_map[path], open_at)
       /\ fed = SaltBytes \o SigBytes(st_map[path], open_at + 1, idx)
       /\ curr_digest = DigestUpdate(CRC32_digest, fed)
  /\ pc = "file" =>
     \A k \in 1..Len(seals) :
       LET s == seals[k]
       IN  /\ IsDecl(st_map[s.path], s.from)
           /\ s.bytes = SaltBytes \o SigBytes(st_map[s.path], s.from + 1, s.to)
           /\ s.fp = Crc32(s.bytes)

\* a scope holding whitespace and Significant tokens has been sealed
C4_Witness ==
  \E k \in 1..Len(seals) :
    LET s == seals[k]
    IN  /\ \E i \in (s.from + 1)..(s.to - 1) : IsWhitespace(st_map[s.path], i)
        /\ Len(s.bytes) > Len(SaltBytes) + 2
        /\ rev = 12

(***************************************************************************)
(* C1.  Whitespace invariance: a run on a forest and a run, under the same *)
(* package and revision, on the same forest without its Whitespace/Comment *)
(* tokens record the same fingerprint for every module.                    *)
(***************************************************************************)
C1_WhitespaceInvariance ==
  SecondRunOver("ws") => module_map = first.module_map

\* two runs that differ in whitespace inside a module have both recorded it
C1_Witness ==
  /\ SecondRunOver("ws")
  /\ \E k \in 1..Len(first.seals) :
       /\ Len(first.seals[k].bytes) > Len(SaltBytes)
       /\ first.seals[k].to - first.seals[k].from
            > seals[k].to - seals[k].from
  /\ DOMAIN module_map # {}

(***************************************************************************)
(* C2.  Salt sensitivity: two runs on the same forest whose (package,      *)
(* revision) pairs differ feed different bytes to the checksum of every    *)
(* module and record different fingerprints for it.                        *)
(***************************************************************************)
C2_SaltSensitivity ==
  SecondRunOver("salt") =>
    /\ \A k \in 1..Len(seals) : seals[k].bytes # first.seals[k].bytes
    /\ \A n \in DOMAIN module_map : module_map[n] # first.module_map[n]

(***************************************************************************)
(* C3.  The fingerprint of a module depends only on its own Significant    *)
(* tokens and the salts: a run on a forest and a run on the same forest    *)
(* with one more non-module declaration at the end of a file record the    *)
(* same fingerprint for every module.                                      *)
(***************************************************************************)
C3_OnlyOwnTokens ==
  SecondRunOver("outside") =>
    \A n \in DOMAIN first.module_map : module_map[n] = first.module_map[n]

(***************************************************************************)
(* C5.  Last declaration wins: at every point the fingerprint the module   *)
(* map holds for a name is the one of the scope of that name sealed last,  *)
(* and it is the checksum of the salts and of the Significant tokens of    *)
(* that scope alone; when pass 1 is over that scope is the one opened by   *)
(* the declaration of the name processed last.                             *)
(***************************************************************************)
SealsOf(n) == {k \in 1..Len(seals) : seals[k].name = n}

LastSealOf(n) == CHOOSE k \in SealsOf(n) : \A j \in SealsOf(n) : j <= k

\* place a is processed before place b, or is b
Before(a, b) == a[1] < b[1] \/ (a[1] = b[1] /\ a[2] <= b[2])

C5_LastDeclarationWins ==
  /\ DOMAIN module_map = {seals[k].name : k \in 1..Len(seals)}
  /\ pc \in {"file", "pass2"} =>
       \A n \in DOMAIN module_map :
         LET s == seals[LastSealOf(n)]
         IN  /\ module_map[n] = s.fp
             /\ s.fp = Crc32(SaltBytes
                               \o SigBytes(st_map[s.path], s.from + 1, s.to))
  /\ pc = "pass2" =>
       \A n \in DOMAIN module_map :
         LET s == seals[LastSealOf(n)]
         IN  /\ <<s.path, s.from>> \in DeclPlaces(st_map, n)
             /\ \A pl \in DeclPlaces(st_map, n) : Before(pl, <<s.path, s.from>>)

\* a name declared twice, with different fingerprints, pass 1 over
C5_Witness ==
  /\ pc = "pass2"
  /\ \E n \in DOMAIN module_map :
       \E j \in SealsOf(n) :
         /\ j < LastSealOf(n)
         /\ seals[j].fp # seals[LastSealOf(n)].fp
         /\ module_map[n] = seals[LastSealOf(n)].fp

(***************************************************************************)
(* C6.  Redefinition warning: when pass 1 is over, a redefinition warning  *)
(* has been logged for every module name declared at two places.           *)
(***************************************************************************)
C6_RedefinitionWarned ==
  pc = "pass2" =>
    \A n \in Names :
      Cardinality(DeclPlaces(st_map, n)) >= 2 =>
        \E k \in 1..Len(warnings) : warnings[k] = <<"redefined", n>>

(***************************************************************************)
(* C7.  Unresolved reference: rewrite() does not complete normally when    *)
(* some instantiation names a module that no file declares.                *)
(***************************************************************************)
References ==
  {rename_map[l][1] : l \in {x \in DOMAIN rename_map : ~rename_map[x][2]}}

C7_UnresolvedReferenceFails ==
  pc = "done" => References \subseteq DOMAIN module_map

(***************************************************************************)
(* C8.  Forward references resolve: when one file declares a module and    *)
(* another file instantiates it, whichever of the two is walked first, at  *)
(* the moment pass 2 begins the module map has an entry for the module and *)
(* the rename table has a Reference entry naming it.                       *)
(***************************************************************************)
C8_ForwardReferencesResolve ==
  pc = "pass2" =>
    \A n \in Names :
      (\E d \in DeclPlaces(st_map, n) :
         \E i \in InstPlaces(st_map, n) : d[1] # i[1])
        => /\ n \in DOMAIN module_map
           /\ n \in References

\* the instantiation is walked in the first file, the declaration in the
\* second, and pass 2 begins
C8_Witness ==
  /\ pc = "pass2"
  /\ \E n \in Names :
       /\ \E d \in DeclPlaces(st_map, n) : d[1] = 2
       /\ \A d \in DeclPlaces(st_map, n) : d[1] = 2
       /\ \E i \in InstPlaces(st_map, n) : i[1] = 1
       /\ n \in DOMAIN module_map
       /\ n \in References

(***************************************************************************)
(* C9.  Role partition, as stated: after pass 1 the type-name location of  *)
(* every module-instantiation node is in the rename table as a Reference   *)
(* with the instantiated name, the name location of every                  *)
(* module-declaration node is in it as a Declaration with the declared     *)
(* name, and no location has both roles.                                   *)
(***************************************************************************)
IsAnyDecl(nodes, i) == nodes[i].kind = "ModuleDeclaration"

RolePartition(DeclNode(_, _)) ==
  /\ \A pl \in Places(st_map, IsInst) :
       /\ NodeFileLoc(st_map, pl) \in DOMAIN rename_map
       /\ rename_map[NodeFileLoc(st_map, pl)]
            = <<st_map[pl[1]][pl[2]].str, FALSE>>
  /\ \A pl \in Places(st_map, DeclNode) :
       /\ NodeFileLoc(st_map, pl) \in DOMAIN rename_map
       /\ rename_map[NodeFileLoc(st_map, pl)]
            = <<st_map[pl[1]][pl[2]].str, TRUE>>
  /\ \A l \in DOMAIN rename_map :
       \/ /\ rename_map[l][2]
          /\ \E pl \in Places(st_map, DeclNode) : NodeFileLoc(st_map, pl) = l
          /\ \A pl \in Places(st_map, IsInst) : NodeFileLoc(st_map, pl) # l
       \/ /\ ~rename_map[l][2]
          /\ \E pl \in Places(st_map, IsInst) : NodeFileLoc(st_map, pl) = l
          /\ \A pl \in Places(st_map, DeclNode) : NodeFileLoc(st_map, pl) # l

CountOf(seq, tag) == Cardinality({k \in 1..Len(seq) : seq[k][1] = tag})

C10_OverrideWarned ==
  pc = "parsed" =>
    /\ CountOf(consumed, "P_REV") >= 1 =>
         CountOf(warnings, "old revision overrided")
           = CountOf(consumed, "P_REV") - 1
    /\ CountOf(consumed, "P_PKG") >= 1 =>
         CountOf(warnings, "old package overrided")
           = CountOf(consumed, "P_PKG") - 1

(***************************************************************************)
(* Vocabulary of the properties of parse_args, read off the argument       *)
(* sequence alone.  A flag is pending at argument i when argument i - 1 is *)
(* -t, -r or -p and was itself read with no flag pending.                  *)
(***************************************************************************)
FlagOf(arg) ==
  CASE arg = STR_T -> "P_TOP"
    [] arg = STR_R -> "P_REV"
    [] arg = STR_P -> "P_PKG"
    [] OTHER -> "P_NONE"

RECURSIVE PendingAt(_, _)
PendingAt(as, i) ==
  IF i = 1 THEN "P_NONE"
  ELSE IF PendingAt(as, i - 1) = "P_NONE" THEN FlagOf(as[i - 1])
  ELSE "P_NONE"

\* the positions of the values of flag
ValuesAt(as, flag) == {i \in 1..Len(as) : PendingAt(as, i) = flag}

LastOf(S) == CHOOSE i \in S : \A j \in S : j <= i

(***************************************************************************)
(* C11.  Last value wins: when parse_args returns, the revision is the     *)
(* number written after the last -r flag (0 when no -r flag has a value)   *)
(* and the package is the text after the last -p flag ("default" when no   *)
(* -p flag has a value).                                                   *)
(***************************************************************************)
C11_LastValueWins ==
  pc = "parsed" =>
    /\ rev = IF ValuesAt(args, "P_REV") = {} THEN REV_DEFAULT
             ELSE ParseUsize(args[LastOf(ValuesAt(args, "P_REV"))])[2]
    /\ pkg = IF ValuesAt(args, "P_PKG") = {} THEN PKG_DEFAULT
             ELSE args[LastOf(ValuesAt(args, "P_PKG"))]

\* a flag was given twice with different values and parse_args returned
C11_Witness ==
  /\ pc = "parsed"
  /\ \/ \E i, j \in ValuesAt(args, "P_REV") :
          /\ i < j
          /\ ParseUsize(args[i])[2] # ParseUsize(args[j])[2]
          /\ ParseUsize(args[i])[2] # REV_DEFAULT
     \/ \E i, j \in ValuesAt(args, "P_PKG") :
          /\ i < j
          /\ args[i] # args[j]
          /\ args[i] # PKG_DEFAULT

(***************************************************************************)
(* C12.  Malformed revision is fatal and immediate: once the value read    *)
(* for a -r flag is not a non-negative integer, the run has aborted at     *)
(* that argument: parse_args has not returned, no file has been parsed and *)
(* the first pass has not begun, whatever arguments follow.                *)
(***************************************************************************)
\* the values of -r read so far that are not non-negative integers
MalformedRevs ==
  {i \in ValuesAt(args, "P_REV") : i < ai /\ ~ParseUsize(args[i])[1]}

C12_MalformedRevisionFatal ==
  MalformedRevs # {} =>
    /\ pc = "panic"
    /\ \A i \in MalformedRevs : ai = i + 1
    /\ fi = 1
    /\ DOMAIN st_map = {}
    /\ walked = <<>>
    /\ DOMAIN module_map = {}
    /\ DOMAIN rename_map = {}

\* the run has aborted at a malformed revision that a good path follows
C12_Witness ==
  /\ pc = "panic"
  /\ MalformedRevs # {}
  /\ ai <= Len(args)
  /\ ParseSv(args[ai])[1]

(***************************************************************************)
(* C13.  Per-file parse failure is recoverable: when the run stops after   *)
(* parse_files has begun, every file of the list that parses has been      *)
(* walked by the first pass and the modules it declares are in the module  *)
(* map, whether or not another file of the list failed to parse.           *)
(***************************************************************************)
DeclaredIn(nodes) ==
  {nodes[i].str : i \in {k \in 1..Len(nodes) : IsDecl(nodes, k)}}

C13_ParseFailureRecoverable ==
  (pc \in {"panic", "done"} /\ fi > 1) =>
    \A k \in 1..Len(file_list) :
      ParseSv(file_list[k])[1] =>
        /\ \E w \in 1..Len(walked) : walked[w] = PathRank(file_list[k])
        /\ DeclaredIn(ParseSv(file_list[k])[2]) \subseteq DOMAIN module_map

(***************************************************************************)
(* C14.  File-path classification: the file list is, in command-line       *)
(* order, exactly the arguments read so far that were read with no flag    *)
(* value pending, are none of -t, -r, -p, and do not begin with +define+   *)
(* or +incdir+.                                                            *)
(***************************************************************************)
HasPrefix(str, prefix) ==
  /\ Len(str) >= Len(prefix)
  /\ SubSeq(str, 1, Len(prefix)) = prefix

IsFilePath(as, i) ==
  /\ PendingAt(as, i) = "P_NONE"
  /\ FlagOf(as[i]) = "P_NONE"
  /\ ~HasPrefix(as[i], STR_DEFINE)
  /\ ~HasPrefix(as[i], STR_INCDIR)

\* the file paths among the first n arguments, in order
RECURSIVE FilePaths(_, _)
FilePaths(as, n) ==
  IF n = 0 THEN <<>>
  ELSE FilePaths(as, n - 1) \o (IF IsFilePath(as, n) THEN <<as[n]>> ELSE <<>>)

C14_FilePathClassification ==
  pc \in {"args", "parsed"} => file_list = FilePaths(args, ai - 1)

(***************************************************************************)
(* C15.  Merge-order independence, as stated: a run on a forest and a run  *)
(* on the same files walked in the opposite order end with the same module *)
(* map and, file for file, the same rename table.                          *)
(***************************************************************************)
\* the rename table, each entry moved to the path its file has in the
\* reversed forest
ReversePaths(rm) ==
  [l \in {<<MaxFiles + 1 - k[1], k[2], k[3], k[4]>> : k \in DOMAIN rm} |->
     rm[<<MaxFiles + 1 - l[1], l[2], l[3], l[4]>>]]

SameResultInReverse ==
  /\ module_map = first.module_map
  /\ rename_map = ReversePaths(first.rename_map)

C15_MergeOrderIndependenceAnyForest ==
  SecondRunOver("order") => SameResultInReverse

(***************************************************************************)
(* C15, amended.  The same, for the forests in which no module name is     *)
(* declared in two different files.                                        *)
(***************************************************************************)
DeclaredInTwoFiles(sm) ==
  {n \in Names : \E a, b \in DeclPlaces(sm, n) : a[1] # b[1]}

C15_MergeOrderIndependence ==
  (SecondRunOver("order") /\ DeclaredInTwoFiles(st_map) = {}) =>
    SameResultInReverse

\* two files that each declare a module, one of them instantiating the
\* other, have been walked in both orders
C15_Witness ==
  /\ SecondRunOver("order")
  /\ DeclaredInTwoFiles(st_map) = {}
  /\ \A p \in DOMAIN st_map : \E i \in 1..Len(st_map[p]) : IsDecl(st_map[p], i)
  /\ References # {}
  /\ Cardinality(DOMAIN module_map) = 2

(***************************************************************************)
(* C16.  Sorted, de-duplicated processing order: when pass 1 is over it    *)
(* has walked each distinct path of the file list exactly once, in         *)
(* ascending path order, and the tree walked under a path is that file's,  *)
(* whatever the order and the multiplicity of the file arguments; so the   *)
(* forest that pass 1 reads depends on the set of file arguments alone.    *)
(***************************************************************************)
FileSet == {file_list[k] : k \in 1..Len(file_list)}

WalkedAt(file) == {w \in 1..Len(walked) : walked[w] = PathRank(file)}

C16_SortedDedupedOrder ==
  pc \in {"pass2", "done"} =>
    /\ Len(walked) = Cardinality(FileSet)
    /\ \A f \in FileSet : Cardinality(WalkedAt(f)) = 1
    /\ \A f, g \in FileSet :
         StrLess(f, g) => \A v \in WalkedAt(f) : \A w \in WalkedAt(g) : v < w
    /\ DOMAIN st_map = {PathRank(f) : f \in FileSet}
    /\ \A f \in FileSet : st_map[PathRank(f)] = ParseSv(f)[2]

\* the file arguments were out of order and one was repeated, and pass 1 is
\* over
C16_Witness ==
  /\ pc = "pass2"
  /\ Len(file_list) > Cardinality(FileSet)
  /\ \E i, j \in 1..Len(file_list) :
       i < j /\ StrLess(file_list[j], file_list[i])
  /\ Len(walked) = 2
  /\ Cardinality(DOMAIN module_map) = 2

(***************************************************************************)
(* C17.  Every opened scope is sealed: between files, every module scope   *)
(* opened in the files walked so far has been sealed exactly once, at the  *)
(* start of the next declaration of its file or, for the last one, at the  *)
(* end of the file, and nothing else has been sealed; when pass 1 is over, *)
(* the names in the module map are the names of the Declaration entries of *)
(* the rename table.                                                       *)
(***************************************************************************)
\* the node at which the scope opened at node i ends: the next declaration
\* that opens a scope, or the end of the file
ScopeEnd(nodes, i) ==
  LET later == {j \in (i + 1)..Len(nodes) : IsDecl(nodes, j)}
  IN  IF later = {} THEN Len(nodes) + 1
      ELSE CHOOSE j \in later : \A k \in later : j <= k

SealsAt(pl) ==
  {k \in 1..Len(seals) : seals[k].path = pl[1] /\ seals[k].from = pl[2]}

DeclarationNames ==
  {rename_map[l][1] : l \in {x \in DOMAIN rename_map : rename_map[x][2]}}

C17_EveryScopeSealed ==
  /\ pc = "file" =>
       LET opened == {pl \in Places(st_map, IsDecl) : pl[1] <= path}
       IN  /\ \A pl \in opened :
                /\ Cardinality(SealsAt(pl)) = 1
                /\ \A k \in SealsAt(pl) :
                     /\ seals[k].to = ScopeEnd(st_map[pl[1]], pl[2])
                     /\ seals[k].name = st_map[pl[1]][pl[2]].str
           /\ Len(seals) = Cardinality(opened)
  /\ pc = "pass2" => DOMAIN module_map = DeclarationNames

\* pass 1 is over; one scope was sealed by the next declaration and one by
\* the end of its file
C17_Witness ==
  /\ pc = "pass2"
  /\ \E k \in 1..Len(seals) : seals[k].to <= Len(st_map[seals[k].path])
  /\ \E k \in 1..Len(seals) : seals[k].to = Len(st_map[seals[k].path]) + 1
  /\ Cardinality(DOMAIN module_map) = 2

(***************************************************************************)
(* C18.  Scopes never span files: the walk of a file starts with no module *)
(* open and a fresh accumulator; every token fed into a sealed fingerprint *)
(* lies in the file of the declaration that opened the scope, after that   *)
(* declaration; so a Significant token that precedes the first declaration *)
(* of its file is in no fingerprint.                                       *)
(***************************************************************************)
\* the Significant tokens of file p that precede its first declaration
BeforeFirstDecl(sm, p) ==
  {i \in 1..Len(sm[p]) :
     /\ IsSignificant(sm[p], i)
     /\ \A j \in 1..i : ~IsDecl(sm[p], j)}

C18_ScopesNeverSpanFiles ==
  /\ (pc = "node" /\ idx = 1) =>
       /\ curr_module = <<>>
       /\ curr_digest = CRC32_digest
       /\ fed = <<>>
  /\ pc = "node" => \A pl \in fed_at : pl[1] = path
  /\ pc = "file" =>
       /\ \A k \in 1..Len(seals) :
            /\ IsDecl(st_map[seals[k].path], seals[k].from)
            /\ st_map[seals[k].path][seals[k].from].str = seals[k].name
            /\ \A pl \in seals[k].places :
                 pl[1] = seals[k].path /\ pl[2] > seals[k].from
       /\ \A p \in DOMAIN st_map : \A i \in BeforeFirstDecl(st_map, p) :
            \A k \in 1..Len(seals) : <<p, i>> \notin seals[k].places

\* pass 1 is over; the first file ends inside a module and the second
\* has a Significant token before its first declaration
C18_Witness ==
  /\ pc = "pass2"
  /\ \E k \in 1..Len(seals) :
       seals[k].path = 1 /\ seals[k].to = Len(st_map[1]) + 1
  /\ BeforeFirstDecl(st_map, 2) # {}
  /\ \E k \in 1..Len(seals) : seals[k].path = 2 /\ seals[k].places # {}

(***************************************************************************)
(* C19.  Flag values are consumed unconditionally: the argument after a    *)
(* -t, -r or -p flag is taken as that flag's value whatever its text; it   *)
(* adds nothing to the file list, the defines or the include list; while   *)
(* parsing goes on, the argument after it is read with no flag pending;    *)
(* and reading a -t, -r or -p that is the last argument, and returning,    *)
(* change nothing in the configuration.                                    *)
(***************************************************************************)
\* the <<flag, value>> pairs among the first n arguments, in order
RECURSIVE FlagValues(_, _)
FlagValues(as, n) ==
  IF n = 0 THEN <<>>
  ELSE FlagValues(as, n - 1)
         \o (IF PendingAt(as, n) # "P_NONE"
             THEN <<<<PendingAt(as, n), as[n]>>>> ELSE <<>>)

\* the arguments among the first n that are no flag's value and take
\* branch c of the no-flag-pending arm, in order
RECURSIVE TakenAs(_, _, _)
TakenAs(as, n, c) ==
  IF n = 0 THEN <<>>
  ELSE TakenAs(as, n - 1, c)
         \o (IF PendingAt(as, n) = "P_NONE" /\ Classify(as[n]) = c
             THEN <<as[n]>> ELSE <<>>)

Config == <<file_list, defines, inc_list, top_set, rev, pkg>>

C19_ValuesConsumed ==
  /\ consumed = FlagValues(args, ai - 1)
  /\ top_set = {args[i] : i \in {j \in ValuesAt(args, "P_TOP") : j < ai}}
  /\ pc \in {"args", "parsed"} =>
       /\ pnext = PendingAt(args, ai)
       /\ file_list = TakenAs(args, ai - 1, "file")
       /\ inc_list = [k \in 1..Len(TakenAs(args, ai - 1, "incdir")) |->
                        SubSeq(TakenAs(args, ai - 1, "incdir")[k], 9,
                               Len(TakenAs(args, ai - 1, "incdir")[k]))]
       /\ DOMAIN defines =
            {DefineKey(TakenAs(args, ai - 1, "define")[k]) :
               k \in 1..Len(TakenAs(args, ai - 1, "define"))}

C19_TrailingFlagStep ==
  /\ (pc = "args" /\ ai = Len(args) /\ pnext = "P_NONE"
        /\ FlagOf(args[ai]) # "P_NONE") => Config' = Config
  /\ pc' = "parsed" => Config' = Config

C19_FlagValuesUnconditional ==
  []C19_ValuesConsumed /\ [][C19_TrailingFlagStep]_vars

\* parse_args returned; a flag's value was itself a flag or began with
\* +define+ or +incdir+, and the last argument was a flag
C19_Witness ==
  /\ pc = "parsed"
  /\ pnext # "P_NONE"
  /\ \E k \in 1..Len(consumed) :
       \/ FlagOf(consumed[k][2]) # "P_NONE"
       \/ HasPrefix(consumed[k][2], STR_DEFINE)
       \/ HasPrefix(consumed[k][2], STR_INCDIR)

====
